---------------------------- MODULE Spec2Model ----------------------------
(***************************************************************************)
(* A model of the cz-linear commit convention: the commit parser           *)
(* (cz_linear/parser.py), the validators (cz_linear/validators.py), the    *)
(* increment resolver, the message renderer and the changelog hook of the  *)
(* plugin class (cz_linear/cz_linear.py), the configuration handler        *)
(* (cz_linear/config.py) and the tables of cz_linear/constants.py.         *)
(*                                                                         *)
(* A Python str is a sequence of characters; a character is a string of    *)
(* length one ("E", " ", "\n").  Python's None is the value None below,    *)
(* which is no str.                                                        *)
(***************************************************************************)
EXTENDS Integers, Sequences, FiniteSets, TLC

VARIABLES
    message,     \* the commit message handed to a parser operation
    commits,     \* the batch of commit messages handed to get_increment
    increments,  \* the list handed to _determine_highest_increment
    issue_id,    \* the text handed to validate_issue_id
    user_input,  \* the text handed to suggest_verb
    answers,     \* the mapping handed to LinearCz.message
    parsed_message, \* the mapping handed to the changelog hook
    settings,    \* base_config.settings, handed to LinearConfig
    verb_table,  \* the module-level dict VERB_MAP, as the process holds it
    pc,          \* the parameter a call is about to read, the callee after the call
    result       \* what the call returned

vars == <<message, commits, increments, issue_id, user_input, answers,
          parsed_message, settings, verb_table, pc, result>>

\* The parameters of the parser and of the resolver.
parser_vars == <<message, commits, increments>>

\* The parameters of validate_issue_id and of suggest_verb.
validator_vars == <<issue_id, user_input>>

\* The parameters of LinearCz.message and of the changelog hook.
plugin_vars == <<answers, parsed_message>>

\* What the configuration handler reads.
config_vars == <<settings, verb_table>>

---------------------------------------------------------------------------
(* Characters and the str methods the code uses.                           *)

UpperLetters == <<"A","B","C","D","E","F","G","H","I","J","K","L","M",
                  "N","O","P","Q","R","S","T","U","V","W","X","Y","Z">>

LowerLetters == <<"a","b","c","d","e","f","g","h","i","j","k","l","m",
                  "n","o","p","q","r","s","t","u","v","w","x","y","z">>

\* LATIN CAPITAL LETTER I WITH DOT ABOVE: an uppercase letter outside A-Z
\* whose lowercase is "i"; re.IGNORECASE lets it match the letter i.
DottedCapitalI == "U+0130"

Digits == {"0","1","2","3","4","5","6","7","8","9"}

\* What str.strip(), str.split(None) and the pattern \s take for whitespace.
Whitespace == {" ", "\t", "\n", "\r", "\f"}

None == <<"None">>

NoMatch == <<"NoMatch">>

Range(s) == {s[i] : i \in 1..Len(s)}

MinOf(S) == CHOOSE x \in S : \A y \in S : x <= y

MaxOf(S) == CHOOSE x \in S : \A y \in S : y <= x

IndexIn(s, c) == IF c \in Range(s) THEN MinOf({i \in 1..Len(s) : s[i] = c}) ELSE 0

UpperSet == Range(UpperLetters)

LowerSet == Range(LowerLetters)

ToUpperMap == [c \in LowerSet |-> UpperLetters[IndexIn(LowerLetters, c)]]

ToLowerMap ==
    [c \in UpperSet \cup {DottedCapitalI} |->
        IF c = DottedCapitalI THEN "i" ELSE LowerLetters[IndexIn(UpperLetters, c)]]

\* KELVIN SIGN: an uppercase letter outside A-Z whose lowercase is "k" and
\* whose uppercase is itself.
KelvinSign == "U+212A"

\* COMBINING DOT ABOVE: what str.lower() puts after the "i" of U+0130.
CombiningDot == "U+0307"

RECURSIVE Concat(_)
Concat(ss) == IF ss = <<>> THEN <<>> ELSE Head(ss) \o Concat(Tail(ss))

\* str.lower() on one character: a str of one or two characters.
StrLower(c) ==
    IF c \in UpperSet THEN <<ToLowerMap[c]>>
    ELSE IF c = DottedCapitalI THEN <<"i", CombiningDot>>
    ELSE IF c = KelvinSign THEN <<"k">>
    ELSE <<c>>

\* str.lower()
lower(s) == Concat([i \in 1..Len(s) |-> StrLower(s[i])])

\* str.upper() on one character.
CharUpper(c) == IF c \in LowerSet THEN ToUpperMap[c] ELSE c

\* The lowercase of one character, as re.IGNORECASE folds it.
CharLower(c) == IF c \in DOMAIN ToLowerMap THEN ToLowerMap[c] ELSE c

\* str.upper()
upper(s) == [i \in 1..Len(s) |-> CharUpper(s[i])]

\* str.strip()
strip(s) ==
    LET keep == {i \in 1..Len(s) : s[i] \notin Whitespace}
    IN  IF keep = {} THEN <<>> ELSE SubSeq(s, MinOf(keep), MaxOf(keep))

\* str.split("\n"): a piece for every line.
RECURSIVE split_newline_every(_)
split_newline_every(s) ==
    LET nl == {i \in 1..Len(s) : s[i] = "\n"}
    IN  IF nl = {} THEN <<s>>
        ELSE <<SubSeq(s, 1, MinOf(nl) - 1)>>
                 \o split_newline_every(SubSeq(s, MinOf(nl) + 1, Len(s)))

\* str.split("\n", 1): at most two pieces, cut at the first line break.
split_newline_once(s) ==
    LET nl == {i \in 1..Len(s) : s[i] = "\n"}
    IN  IF nl = {} THEN <<s>>
        ELSE <<SubSeq(s, 1, MinOf(nl) - 1), SubSeq(s, MinOf(nl) + 1, Len(s))>>

\* str.split("\n")[0]
first_line_of(s) == split_newline_once(s)[1]

\* str.split(None)[:2]: the first two whitespace-delimited fields, the text
\* after the second one lost.
split_whitespace_every(s) ==
    LET keep == {i \in 1..Len(s) : s[i] \notin Whitespace}
        EndOf(b) == IF \E i \in b..Len(s) : s[i] \in Whitespace
                    THEN MinOf({i \in b..Len(s) : s[i] \in Whitespace}) - 1
                    ELSE Len(s)
    IN  IF keep = {} THEN <<>>
        ELSE LET b1    == MinOf(keep)
                 after == {i \in keep : i > EndOf(b1)}
             IN  IF after = {} THEN <<SubSeq(s, b1, EndOf(b1))>>
                 ELSE <<SubSeq(s, b1, EndOf(b1)), SubSeq(s, MinOf(after), EndOf(MinOf(after)))>>

\* str.split(None, 1): the first whitespace-delimited field, and the text that
\* follows the whitespace after it (trailing whitespace kept) when there is any.
split_whitespace_once(s) ==
    LET keep == {i \in 1..Len(s) : s[i] \notin Whitespace}
    IN  IF keep = {} THEN <<>>
        ELSE LET b     == MinOf(keep)
                 gap   == {i \in b..Len(s) : s[i] \in Whitespace}
                 e     == IF gap = {} THEN Len(s) ELSE MinOf(gap) - 1
                 after == {i \in keep : i > e}
             IN  IF after = {} THEN <<SubSeq(s, b, e)>>
                 ELSE <<SubSeq(s, b, e), SubSeq(s, MinOf(after), Len(s))>>

\* str.split(None, 2): the first two whitespace-delimited fields, and the text
\* that follows the whitespace after the second one.
split_whitespace_twice(s) ==
    LET parts == split_whitespace_once(s)
    IN  IF Len(parts) < 2 THEN parts
        ELSE <<parts[1]>> \o split_whitespace_once(parts[2])

\* sub in s, for two str
str_in(sub, s) ==
    \E i \in 1..(Len(s) - Len(sub) + 1) : SubSeq(s, i, i + Len(sub) - 1) = sub

\* What the lookup of a missing key and a method call on None raise.
KeyError == <<"KeyError">>

AttributeError == <<"AttributeError">>

Exceptions == {KeyError, AttributeError}

\* format(v) inside an f-string
format(v) == IF v = None THEN <<"N","o","n","e">> ELSE v

\* Whether prefix is how s begins (str.startswith).
startswith(s, prefix) ==
    Len(prefix) <= Len(s) /\ SubSeq(s, 1, Len(prefix)) = prefix

---------------------------------------------------------------------------
(* cz_linear/constants.py                                                  *)

MAJOR == <<"M","A","J","O","R">>
MINOR == <<"M","I","N","O","R">>
PATCH == <<"P","A","T","C","H">>
NONE  == <<"N","O","N","E">>

\* INCREMENT_PRIORITY.get(inc, 0)
INCREMENT_PRIORITY(inc) ==
    IF inc = MAJOR THEN 3
    ELSE IF inc = MINOR THEN 2
    ELSE IF inc = PATCH THEN 1
    ELSE 0

\* VERB_MAP, in insertion order: <<verb, increment>>.
VERB_MAP == <<
    <<<<"C","h","a","n","g","e","d">>, MAJOR>>,
    <<<<"A","d","d","e","d">>, MINOR>>,
    <<<<"C","r","e","a","t","e","d">>, MINOR>>,
    <<<<"E","n","h","a","n","c","e","d">>, MINOR>>,
    <<<<"I","m","p","l","e","m","e","n","t","e","d">>, MINOR>>,
    <<<<"B","u","m","p","e","d">>, PATCH>>,
    <<<<"C","o","n","f","i","g","u","r","e","d">>, PATCH>>,
    <<<<"D","e","p","r","e","c","a","t","e","d">>, PATCH>>,
    <<<<"D","i","s","a","b","l","e","d">>, PATCH>>,
    <<<<"D","o","w","n","g","r","a","d","e","d">>, PATCH>>,
    <<<<"E","n","a","b","l","e","d">>, PATCH>>,
    <<<<"F","i","x","e","d">>, PATCH>>,
    <<<<"I","m","p","r","o","v","e","d">>, PATCH>>,
    <<<<"I","n","t","e","g","r","a","t","e","d">>, PATCH>>,
    <<<<"M","e","r","g","e","d">>, PATCH>>,
    <<<<"M","i","g","r","a","t","e","d">>, PATCH>>,
    <<<<"O","p","t","i","m","i","z","e","d">>, PATCH>>,
    <<<<"R","e","f","a","c","t","o","r","e","d">>, PATCH>>,
    <<<<"R","e","l","e","a","s","e","d">>, PATCH>>,
    <<<<"R","e","m","o","v","e","d">>, PATCH>>,
    <<<<"R","e","s","o","l","v","e","d">>, PATCH>>,
    <<<<"R","e","v","e","r","t","e","d">>, PATCH>>,
    <<<<"T","e","s","t","e","d">>, PATCH>>,
    <<<<"U","p","d","a","t","e","d">>, PATCH>>,
    <<<<"U","p","g","r","a","d","e","d">>, PATCH>>,
    <<<<"V","a","l","i","d","a","t","e","d">>, PATCH>>,
    <<<<"C","o","m","m","e","n","t","e","d">>, NONE>>,
    <<<<"D","o","c","u","m","e","n","t","e","d">>, NONE>>,
    <<<<"F","o","r","m","a","t","t","e","d">>, NONE>>,
    <<<<"R","e","p","l","a","c","e","d">>, NONE>>,
    <<<<"R","e","o","r","g","a","n","i","z","e","d">>, NONE>>,
    <<<<"S","t","y","l","e","d">>, NONE>> >>

\* VERB_MAP.keys()
VerbKeys == {VERB_MAP[i][1] : i \in 1..Len(VERB_MAP)}

\* VERB_MAP.get(verb)
VerbMapGet(verb) ==
    IF verb \in VerbKeys
    THEN VERB_MAP[CHOOSE i \in 1..Len(VERB_MAP) : VERB_MAP[i][1] = verb][2]
    ELSE None

\* The literal text and the alternatives of MANUAL_BUMP_PATTERN,
\* \[bump:(major|minor|patch|none)\]
BumpOpen == <<"[","b","u","m","p",":">>

BumpLevels == <<<<"m","a","j","o","r">>, <<"m","i","n","o","r">>, <<"p","a","t","c","h">>, <<"n","o","n","e">>>>

BumpClose == <<"]">>

\* The text each alternative of MANUAL_BUMP_PATTERN matches, in lowercase.
BumpTexts == [lvl \in 1..Len(BumpLevels) |-> BumpOpen \o BumpLevels[lvl] \o BumpClose]

---------------------------------------------------------------------------
(* Pattern matching.                                                       *)

\* The length of the text [A-Z]{2,}-[0-9]+ matches at the start of s; 0 when
\* it does not match.  Every repetition is greedy, and no shorter choice lets
\* a pattern of this module match where the longest does not.
IssueIdPrefix(s) ==
    LET stop    == {i \in 1..Len(s) : s[i] \notin UpperSet}
        letters == IF stop = {} THEN Len(s) ELSE MinOf(stop) - 1
        rest    == SubSeq(s, letters + 2, Len(s))
        nondig  == {i \in 1..Len(rest) : rest[i] \notin Digits}
        digits  == IF nondig = {} THEN Len(rest) ELSE MinOf(nondig) - 1
    IN  IF letters >= 2 /\ Len(s) > letters /\ s[letters + 1] = "-" /\ digits >= 1
        THEN letters + 1 + digits
        ELSE 0

\* The number of whitespace characters s begins with (what \s+ takes).
WhitespacePrefix(s) ==
    LET keep == {i \in 1..Len(s) : s[i] \notin Whitespace}
    IN  IF keep = {} THEN Len(s) ELSE MinOf(keep) - 1

\* The pattern with \s* for \s+: the whitespace after the issue id optional.
commit_pattern_match_optional_space(line) ==
    LET n    == IssueIdPrefix(line)
        tail == SubSeq(line, n + 1, Len(line))
        w    == WhitespacePrefix(tail)
        msg  == SubSeq(tail, w + 1, Len(tail))
    IN  IF n > 0 /\ "\n" \notin Range(msg)
        THEN [matched |-> TRUE, issue_id |-> SubSeq(line, 1, n), message |-> msg]
        ELSE [matched |-> FALSE, issue_id |-> <<>>, message |-> <<>>]

\* re.compile(COMMIT_PARSER_PATTERN).match(line), with
\* COMMIT_PARSER_PATTERN = ^(?P<issue_id>[A-Z]{2,}-[0-9]+)\s+(?P<message>.*)$
\* "." takes no line break, so the text after the whitespace holds none.
commit_pattern_match(line) ==
    LET n    == IssueIdPrefix(line)
        tail == SubSeq(line, n + 1, Len(line))
        w    == WhitespacePrefix(tail)
        msg  == SubSeq(tail, w + 1, Len(tail))
    IN  IF n > 0 /\ w >= 1 /\ "\n" \notin Range(msg)
        THEN [matched |-> TRUE, issue_id |-> SubSeq(line, 1, n), message |-> msg]
        ELSE [matched |-> FALSE, issue_id |-> <<>>, message |-> <<>>]

\* Whether pattern text p (lowercase letters and punctuation) matches s at
\* position i under re.IGNORECASE.
MatchesIgnoreCaseAt(s, i, p) ==
    /\ i + Len(p) - 1 <= Len(s)
    /\ \A k \in 1..Len(p) : CharLower(s[i + k - 1]) = p[k]

\* Whether MANUAL_BUMP_PATTERN matches s at position i with alternative lvl.
BumpMatchesAt(s, i, lvl) == MatchesIgnoreCaseAt(s, i, BumpTexts[lvl])

\* re.compile(MANUAL_BUMP_PATTERN, re.IGNORECASE).search(message): group(1)
\* of the leftmost match, as it is written in the message.
manual_bump_pattern_search(s) ==
    LET hits == {i \in 1..Len(s) : \E lvl \in 1..Len(BumpLevels) : BumpMatchesAt(s, i, lvl)}
    IN  IF hits = {} THEN NoMatch
        ELSE LET i   == MinOf(hits)
                 lvl == MinOf({l \in 1..Len(BumpLevels) : BumpMatchesAt(s, i, l)})
             IN  SubSeq(s, i + Len(BumpOpen), i + Len(BumpOpen) + Len(BumpLevels[lvl]) - 1)

\* re.compile(rf"^[A-Z]{{2,}}-[0-9]+\s+({'|'.join(VERB_MAP.keys())})").match(line):
\* group(1), the first alternative the text after the whitespace begins with.
verb_pattern_match(line) ==
    LET n    == IssueIdPrefix(line)
        tail == SubSeq(line, n + 1, Len(line))
        w    == WhitespacePrefix(tail)
        rest == SubSeq(tail, w + 1, Len(tail))
        alts == {i \in 1..Len(VERB_MAP) : startswith(rest, VERB_MAP[i][1])}
    IN  IF n > 0 /\ w >= 1 /\ alts # {}
        THEN VERB_MAP[MinOf(alts)][1]
        ELSE NoMatch

---------------------------------------------------------------------------
(* cz_linear/parser.py: CommitParser                                       *)

extract_manual_bump(msg) ==
    LET match == manual_bump_pattern_search(msg)
    IN  IF match # NoMatch
        THEN LET increment == upper(match)
             IN  IF increment # NONE THEN increment ELSE None
        ELSE None

\* Lines 68-75 without the reset of line 75: an unknown verb is dropped and
\* the description stays the text after it.
verb_and_description_no_reset(remaining) ==
    LET parts == split_whitespace_once(remaining)
        verb  == IF parts # <<>> THEN parts[1] ELSE None
    IN  [verb        |-> IF verb \in VerbKeys THEN verb ELSE None,
         description |-> IF Len(parts) > 1 THEN parts[2] ELSE <<>>]

\* Lines 68-75 of parse_commit: the verb and the description of the text
\* after the issue id.
verb_and_description(remaining) ==
    LET parts == split_whitespace_once(remaining)
        verb  == IF parts # <<>> THEN parts[1] ELSE None
        desc  == IF Len(parts) > 1 THEN parts[2] ELSE <<>>
    IN  IF verb \notin VerbKeys
        THEN [verb |-> None, description |-> remaining]
        ELSE [verb |-> verb, description |-> desc]

parse_commit(msg) ==
    LET lines      == split_newline_once(strip(msg))
        first_line == strip(lines[1])
        body       == IF Len(lines) > 1 THEN strip(lines[2]) ELSE <<>>
        match      == commit_pattern_match(first_line)
    IN  IF ~match.matched
        THEN [issue_id |-> None, verb |-> None, description |-> first_line,
              body |-> body, manual_bump |-> extract_manual_bump(msg)]
        ELSE LET parsed == verb_and_description(strip(match.message))
             IN  [issue_id    |-> match.issue_id,
                  verb        |-> parsed.verb,
                  description |-> parsed.description,
                  body        |-> body,
                  manual_bump |-> extract_manual_bump(msg)]

extract_verb_from_first_line(first_line) ==
    LET match == verb_pattern_match(first_line)
    IN  IF match # NoMatch THEN match ELSE None

get_increment_from_message(msg) ==
    LET manual_bump == extract_manual_bump(msg)
    IN  IF manual_bump # None
        THEN manual_bump
        ELSE LET verb == extract_verb_from_first_line(first_line_of(msg))
             IN  IF verb # None THEN VerbMapGet(verb) ELSE None

---------------------------------------------------------------------------
(* cz_linear/cz_linear.py: LinearCz, the increment resolver                *)

\* self._manual_bump_pattern.search(message), then the same steps as
\* CommitParser.extract_manual_bump.
_check_manual_bump(msg) ==
    LET match == manual_bump_pattern_search(msg)
    IN  IF match # NoMatch
        THEN LET increment == upper(match)
             IN  IF increment # NONE THEN increment ELSE None
        ELSE None

\* self._bump_regex is bump_pattern compiled: the pattern of verb_pattern_match.
_get_increment_from_commit(msg) ==
    LET match == verb_pattern_match(first_line_of(msg))
    IN  IF match # NoMatch THEN VerbMapGet(match) ELSE None

\* min for max: the first element of the lowest priority.
_determine_lowest_increment(incs) ==
    IF incs = <<>> THEN None
    ELSE LET low    == MinOf({INCREMENT_PRIORITY(incs[i]) : i \in 1..Len(incs)})
             lowest == incs[MinOf({i \in 1..Len(incs) : INCREMENT_PRIORITY(incs[i]) = low})]
         IN  IF low > 0 THEN lowest ELSE None

\* max(..., key=priority) returns the first element of the highest priority.
_determine_highest_increment(incs) ==
    IF incs = <<>> THEN None
    ELSE LET top     == MaxOf({INCREMENT_PRIORITY(incs[i]) : i \in 1..Len(incs)})
             highest == incs[MinOf({i \in 1..Len(incs) : INCREMENT_PRIORITY(incs[i]) = top})]
         IN  IF top > 0 THEN highest ELSE None

\* The first loop without its early return: the override of the highest
\* priority among those of commits i.. of the batch.
highest_manual_bump(batch, i) ==
    _determine_highest_increment(
        SelectSeq([k \in 1..(Len(batch) - i + 1) |-> _check_manual_bump(batch[i + k - 1])],
                  LAMBDA x : x # None))

\* The first loop of get_increment, from commit i on: the first override
\* found, None when the loop ends without one.
RECURSIVE first_manual_bump(_, _)
first_manual_bump(batch, i) ==
    IF i > Len(batch) THEN None
    ELSE LET increment == _check_manual_bump(batch[i])
         IN  IF increment # None THEN increment
             ELSE first_manual_bump(batch, i + 1)

\* The second loop of get_increment: the increments it collects.
collected_increments(batch) ==
    LET derived == [i \in 1..Len(batch) |-> _get_increment_from_commit(batch[i])]
    IN  SelectSeq(derived, LAMBDA x : x # None /\ x # <<>>)

get_increment(batch) ==
    IF batch = <<>> THEN None
    ELSE LET override == first_manual_bump(batch, 1)
         IN  IF override # None THEN override
             ELSE _determine_highest_increment(collected_increments(batch))

---------------------------------------------------------------------------
(* cz_linear/cz_linear.py: LinearCz.message and the changelog hook          *)

\* LinearCz.message(answers): the text, or the exception the lookups raise.
LinearCz_message(a) ==
    IF "issue" \notin DOMAIN a THEN KeyError
    ELSE IF a["issue"] = None THEN AttributeError
    ELSE IF "verb" \notin DOMAIN a \/ "description" \notin DOMAIN a THEN KeyError
    ELSE IF a["description"] = None THEN AttributeError
    ELSE LET issue       == strip(upper(a["issue"]))
             verb        == a["verb"]
             description == strip(a["description"])
             body        == strip(IF "body" \in DOMAIN a THEN a["body"] ELSE <<>>)
             msg         == issue \o <<" ">> \o format(verb) \o <<" ">> \o description
         IN  IF body # <<>> THEN msg \o <<"\n","\n">> \o body ELSE msg

\* The mapping m with m[key] = value (a key set or added).
\* An assignment that builds a new mapping holding the one key.
SetItemAlone(m, key, value) == [k \in {key} |-> value]

\* m[key] = value
SetItem(m, key, value) ==
    [k \in DOMAIN m \cup {key} |-> IF k = key THEN value ELSE m[k]]

\* The hook without the test for the key: the suffix appended to every message.
_changelog_message_builder_hook_unconditional(m) ==
    LET original_msg == IF "message" \in DOMAIN m THEN m["message"] ELSE <<>>
        id           == IF "issue" \in DOMAIN m THEN m["issue"] ELSE None
    IN  IF ~str_in(id, original_msg)
        THEN SetItem(m, "message", original_msg \o <<" ","(">> \o format(id) \o <<")">>)
        ELSE m

\* LinearCz._changelog_message_builder_hook(message, commit): the mapping it
\* returns, which is the mapping it was handed, changed in place.
_changelog_message_builder_hook(m) ==
    IF "issue" \in DOMAIN m
    THEN LET original_msg == IF "message" \in DOMAIN m THEN m["message"] ELSE <<>>
             id           == m["issue"]
         IN  IF ~str_in(id, original_msg)
             THEN SetItem(m, "message", original_msg \o <<" ","(">> \o id \o <<")">>)
             ELSE m
    ELSE m

---------------------------------------------------------------------------
(* cz_linear/validators.py                                                 *)

MIN_DESCRIPTION_LENGTH == 3

\* re.match(ISSUE_ID_PATTERN, s) with ISSUE_ID_PATTERN = ^[A-Z]{2,}-[0-9]+$ :
\* "$" stands at the end of s or before a line break that ends s.
issue_id_pattern_match(s) ==
    LET n == IssueIdPrefix(s)
    IN  n > 0 /\ (n = Len(s) \/ (n = Len(s) - 1 /\ s[Len(s)] = "\n"))

validate_issue_id(id) == issue_id_pattern_match(strip(upper(id)))

validate_description(description) == Len(strip(description)) >= MIN_DESCRIPTION_LENGTH

validate_verb(verb) == verb \in VerbKeys

EmptyCommitMessage == <<"E","m","p","t","y"," ","c","o","m","m","i","t"," ","m","e","s","s","a","g","e">>

InvalidFormat == <<"I","n","v","a","l","i","d"," ","f","o","r","m","a","t",":"," ","e","x","p","e","c","t","e","d"," ","'","<","I","S","S","U","E","-","I","D",">"," ","<","V","e","r","b",">"," ","<","d","e","s","c","r","i","p","t","i","o","n",">","'">>

InvalidIssueId(id) == <<"I","n","v","a","l","i","d"," ","i","s","s","u","e"," ","I","D"," ","f","o","r","m","a","t",":"," ","'">> \o id \o <<"'">>

InvalidVerb(verb) == <<"I","n","v","a","l","i","d"," ","v","e","r","b",":"," ","'">> \o verb \o <<"'"," ","i","s"," ","n","o","t"," ","i","n"," ","t","h","e"," ","a","p","p","r","o","v","e","d"," ","l","i","s","t">>

DescriptionTooShort == <<"D","e","s","c","r","i","p","t","i","o","n"," ","t","o","o"," ","s","h","o","r","t"," ","(","m","i","n","i","m","u","m"," ","3"," ","c","h","a","r","a","c","t","e","r","s",")">>

\* The checks with the verb tested before the issue id.
validate_commit_message_verb_first(msg) ==
    IF strip(msg) = <<>> THEN <<FALSE, EmptyCommitMessage>>
    ELSE LET parts == split_whitespace_twice(strip(first_line_of(strip(msg))))
         IN  IF Len(parts) < 3 THEN <<FALSE, InvalidFormat>>
             ELSE IF ~validate_verb(parts[2]) THEN <<FALSE, InvalidVerb(parts[2])>>
             ELSE IF ~validate_issue_id(parts[1]) THEN <<FALSE, InvalidIssueId(parts[1])>>
             ELSE IF ~validate_description(parts[3]) THEN <<FALSE, DescriptionTooShort>>
             ELSE <<TRUE, None>>

\* (is_valid, error_message)
validate_commit_message(msg) ==
    IF strip(msg) = <<>> THEN <<FALSE, EmptyCommitMessage>>
    ELSE LET parts == split_whitespace_twice(strip(first_line_of(strip(msg))))
         IN  IF Len(parts) < 3 THEN <<FALSE, InvalidFormat>>
             ELSE IF ~validate_issue_id(parts[1]) THEN <<FALSE, InvalidIssueId(parts[1])>>
             ELSE IF ~validate_verb(parts[2]) THEN <<FALSE, InvalidVerb(parts[2])>>
             ELSE IF ~validate_description(parts[3]) THEN <<FALSE, DescriptionTooShort>>
             ELSE <<TRUE, None>>

\* The keys compared as they are written, the input alone lowercased.
suggest_verb_keys_as_written(input) ==
    SelectSeq([i \in 1..Len(VERB_MAP) |-> VERB_MAP[i][1]],
              LAMBDA verb : startswith(verb, lower(input)))

\* [verb for verb in VERB_MAP.keys() if verb.lower().startswith(user_input.lower())]
suggest_verb(input) ==
    SelectSeq([i \in 1..Len(VERB_MAP) |-> VERB_MAP[i][1]],
              LAMBDA verb : startswith(lower(verb), lower(input)))

---------------------------------------------------------------------------
(* cz_linear/config.py: LinearConfig                                       *)

ISSUE_ID_PATTERN == <<"^","[","A","-","Z","]","{","2",",","}","-","[","0","-","9","]","+","$">>

ConfigurationError == <<"ConfigurationError">>

TypeError == <<"TypeError">>

\* A value that is no str: the integer 1.
One == <<"1 (int)">>

\* isinstance(v, str)
IsStr(v) == v \notin {None, One}

\* bool(v) for a str, None or an integer
Truthy(v) == v \notin {None, <<>>}

\* bool(d) for a dict, written as the sequence of its entries
NonEmpty(d) == Len(d) > 0

\* The position of the "]" that closes the character set whose text begins
\* at j; 0 when the set is not closed.  A "]" that comes first is a member.
RECURSIVE SetEnd(_, _, _)
SetEnd(p, j, first) ==
    IF j > Len(p) THEN 0
    ELSE IF p[j] = "]" /\ ~first THEN j
    ELSE IF p[j] = "\\" THEN (IF j = Len(p) THEN 0 ELSE SetEnd(p, j + 2, FALSE))
    ELSE SetEnd(p, j + 1, FALSE)

\* Whether re.compile accepts p from position i on, depth groups being open
\* and repeatable telling whether a "*" may follow.  The patterns are written
\* with the letters a and d, the brackets ( ) [ ], "*" and the backslash.
RECURSIVE Compiles(_, _, _, _)
Compiles(p, i, depth, repeatable) ==
    IF i > Len(p) THEN depth = 0
    ELSE IF p[i] = "\\" THEN i < Len(p) /\ Compiles(p, i + 2, depth, TRUE)
    ELSE IF p[i] = "(" THEN Compiles(p, i + 1, depth + 1, FALSE)
    ELSE IF p[i] = ")" THEN depth > 0 /\ Compiles(p, i + 1, depth - 1, TRUE)
    ELSE IF p[i] = "*" THEN repeatable /\ Compiles(p, i + 1, depth, FALSE)
    ELSE IF p[i] = "[" THEN SetEnd(p, i + 1, TRUE) > 0
                            /\ Compiles(p, SetEnd(p, i + 1, TRUE) + 1, depth, TRUE)
    ELSE Compiles(p, i + 1, depth, TRUE)

\* re.compile(pattern): None when it compiles, else the exception raised.
re_compile(pattern) ==
    IF ~IsStr(pattern) THEN TypeError
    ELSE IF Compiles(pattern, 1, 0, FALSE) THEN None
    ELSE <<"re.error">>

\* LinearConfig._validate_custom_verbs(verbs): None, or the exception raised
\* at the first entry that is not valid.
_validate_custom_verbs(verbs) ==
    IF \E i \in 1..Len(verbs) :
           \/ ~IsStr(verbs[i][1]) \/ verbs[i][1] = <<>>
           \/ verbs[i][2] \notin {MAJOR, MINOR, PATCH, NONE}
    THEN ConfigurationError
    ELSE None

\* LinearConfig._validate_pattern(pattern): None, or the exception raised.
_validate_pattern(pattern) ==
    IF re_compile(pattern) = <<"re.error">> THEN ConfigurationError
    ELSE re_compile(pattern)

\* d.get(key, default)
Get(d, key, default) == IF key \in DOMAIN d THEN d[key] ELSE default

\* The constructor with the errors of validation logged and the entry that
\* raised them left out, instead of re-raised.
LinearConfig_skipping_invalid(s) ==
    LET cz_settings    == Get(s, "cz_linear", <<>>)
        custom_verbs   == Get(cz_settings, "custom_verbs", <<>>)
        custom_pattern == Get(cz_settings, "issue_pattern", None)
    IN  [raised |-> None,
         _custom_verbs |->
            IF NonEmpty(custom_verbs) /\ _validate_custom_verbs(custom_verbs) = None
            THEN custom_verbs ELSE <<>>,
         _issue_pattern |->
            IF Truthy(custom_pattern) /\ _validate_pattern(custom_pattern) = None
            THEN custom_pattern ELSE ISSUE_ID_PATTERN]

\* LinearConfig(base_config) with base_config.settings = s: the fields of the
\* object as __init__ leaves them, and what __init__ raised: None, or
\* ConfigurationError, which _load_custom_config makes of every exception,
\* and then no object is returned.
LinearConfig(s) ==
    LET cz_settings    == Get(s, "cz_linear", <<>>)
        custom_verbs   == Get(cz_settings, "custom_verbs", <<>>)
        custom_pattern == Get(cz_settings, "issue_pattern", None)
    IN  IF NonEmpty(custom_verbs) /\ _validate_custom_verbs(custom_verbs) # None
        THEN [raised |-> ConfigurationError, _custom_verbs |-> <<>>,
              _issue_pattern |-> ISSUE_ID_PATTERN]
        ELSE IF Truthy(custom_pattern) /\ _validate_pattern(custom_pattern) # None
        THEN [raised |-> ConfigurationError, _custom_verbs |-> custom_verbs,
              _issue_pattern |-> ISSUE_ID_PATTERN]
        ELSE [raised |-> None, _custom_verbs |-> custom_verbs,
              _issue_pattern |-> IF Truthy(custom_pattern) THEN custom_pattern
                                 ELSE ISSUE_ID_PATTERN]

\* The keys of a dict written as a sequence of <<key, value>>.
Keys(d) == {d[i][1] : i \in 1..Len(d)}

\* d[key], for a key of d
Item(d, key) == d[CHOOSE i \in 1..Len(d) : d[i][1] = key][2]

\* {**custom, **table}: the built-in entries written over the custom ones.
verb_map_builtin_wins(table, custom) ==
    SelectSeq(custom, LAMBDA e : e[1] \notin Keys(table)) \o table

\* {**VERB_MAP, **self._custom_verbs}: the entries of the table in their
\* order, with the value of the custom entry of the same key, then the
\* custom entries of other keys.
verb_map(table, custom) ==
    [i \in 1..Len(table) |->
        IF table[i][1] \in Keys(custom)
        THEN <<table[i][1], Item(custom, table[i][1])>> ELSE table[i]]
    \o SelectSeq(custom, LAMBDA e : e[1] \notin Keys(table))

---------------------------------------------------------------------------
(* The inputs.                                                             *)

MaxPad == 2       \* the longest run of spaces between the fields of a first line
MaxChunks == 3    \* the most pieces a message of directives is put together from
MaxBatch == 3     \* the most commits of a batch, and levels of a list
MaxPrefix == 3    \* the longest text handed to suggest_verb
MaxCustom == 2    \* the most entries of custom_verbs
MaxPattern == 3   \* the longest issue_pattern written letter by letter

Pad(k) == [i \in 1..k |-> " "]

Pads == {Pad(k) : k \in 0..MaxPad}

Leads == {<<>>, <<" ">>}

Ids == {<<"E","N","G","-","1","2">>, <<"e","n","g","-","1","2">>, <<"E","n","g","-","1","2">>, <<"E","-","1">>, <<>>}

Words == {<<"F","i","x","e","d">>, <<"F","i","x","i","n","g">>, <<"F","i","x","e","d","n","e","s","s">>, <<"D","o","c","u","m","e","n","t","e","d">>, <<>>}

Descs == {<<>>, <<"b","u","g">>, <<"a"," "," ","b">>}

Tails == {<<>>, <<"\n","\n","B","o","d","y">>, <<"\n","\n","[","b","u","m","p",":","m","a","j","o","r","]">>, <<"\n","l","1","\n","\n","l","2"," ","\n">>}

\* <lead><id><sep><word><sep><description><tail>, each part possibly empty
StructuredMessages ==
    {lead \o id \o sep1 \o word \o sep2 \o desc \o tail :
        lead \in Leads, id \in Ids, sep1 \in Pads, word \in Words,
        sep2 \in Pads \cup {<<"\t">>}, desc \in Descs, tail \in Tails}

Chunks == {<<"E","N","G","-","1"," ","F","i","x","e","d"," ","x","\n">>, <<"[","b","u","m","p",":","m","a","j","o","r","]">>, <<"[","B","U","M","P",":","M","i","n","o","r","]">>, <<"[","b","u","m","p",":","p","a","t","c","h","]">>,
           <<"[","B","u","m","p",":","N","O","N","E","]">>, <<"[","b","u","m","p",":","m","a","j","r","]">>, <<"[","b","u","m","p",":","m",DottedCapitalI,"n","o","r","]">>, <<" ">>}

SeqsUpTo(S, n) == UNION {[1..k -> S] : k \in 0..n}

ChunkedMessages == {Concat(cs) : cs \in SeqsUpTo(Chunks, MaxChunks)}

\* The first lines the tests of get_increment_from_message are run on.
TestMessages == {<<"E","N","G","-","1","2","3"," ","C","h","a","n","g","e"," ","A","P","I"," ","r","e","s","p","o","n","s","e"," ","f","o","r","m","a","t">>, <<"B","U","G","-","4","5","6"," ","C","h","a","n","g","e"," ","d","a","t","a","b","a","s","e"," ","s","c","h","e","m","a">>,
                 <<"E","N","G","-","1","2","3"," ","A","d","d"," ","u","s","e","r"," ","a","u","t","h","e","n","t","i","c","a","t","i","o","n">>, <<"B","U","G","-","4","5","6"," ","C","r","e","a","t","e"," ","n","e","w"," ","d","a","s","h","b","o","a","r","d"," ","c","o","m","p","o","n","e","n","t">>,
                 <<"O","P","S","-","7","8","9"," ","E","n","h","a","n","c","e"," ","m","o","n","i","t","o","r","i","n","g"," ","c","a","p","a","b","i","l","i","t","i","e","s">>, <<"D","E","V","-","0","1","2"," ","I","m","p","l","e","m","e","n","t"," ","O","A","u","t","h","2"," ","s","u","p","p","o","r","t">>,
                 <<"E","N","G","-","1","2","3"," ","F","i","x"," ","l","o","g","i","n"," ","b","u","g">>, <<"B","U","G","-","4","5","6"," ","U","p","d","a","t","e"," ","d","e","p","e","n","d","e","n","c","i","e","s">>,
                 <<"O","P","S","-","7","8","9"," ","I","m","p","r","o","v","e"," ","p","e","r","f","o","r","m","a","n","c","e">>, <<"D","E","V","-","0","1","2"," ","R","e","f","a","c","t","o","r"," ","a","u","t","h","e","n","t","i","c","a","t","i","o","n"," ","m","o","d","u","l","e">>,
                 <<"E","N","G","-","1","2","3"," ","F","i","x"," ","b","u","g","\n","\n","[","b","u","m","p",":","m","a","j","o","r","]">>}

Messages == StructuredMessages \cup ChunkedMessages \cup TestMessages

CommitPool == {<<"E","N","G","-","1"," ","F","i","x","e","d"," ","x">>, <<"E","N","G","-","2"," ","A","d","d","e","d"," ","y">>, <<"E","N","G","-","3"," ","C","h","a","n","g","e","d"," ","z">>,
               <<"E","N","G","-","4"," ","D","o","c","u","m","e","n","t","e","d"," ","d">>, <<"E","N","G","-","5"," ","F","i","x","i","n","g"," ","q">>,
               <<"E","N","G","-","1"," ","F","i","x","e","d"," ","x","\n","\n","[","b","u","m","p",":","m","a","j","o","r","]">>, <<"E","N","G","-","2"," ","A","d","d","e","d"," ","y","\n","\n","[","b","u","m","p",":","p","a","t","c","h","]">>,
               <<"E","N","G","-","3"," ","C","h","a","n","g","e","d"," ","z","\n","\n","[","b","u","m","p",":","n","o","n","e","]">>, <<"E","N","G","-","4"," ","D","o","c","u","m","e","n","t","e","d"," ","d","\n","\n","[","B","U","M","P",":","M","i","n","o","r","]">>,
               <<"E","N","G","-","6"," ","U","p","d","a","t","e","d"," ","u","\n","\n","[","b","u","m","p",":","m",DottedCapitalI,"n","o","r","]">>}

Batches == SeqsUpTo(CommitPool, MaxBatch)

LevelNames == {MAJOR, MINOR, PATCH, NONE, <<"I","N","V","A","L","I","D">>}

LevelLists == SeqsUpTo(LevelNames, MaxBatch)

\* <lead><id><sep><verb><sep><description><tail> for validate_commit_message
ValidationMessages ==
    {lead \o id \o sep1 \o verb \o sep2 \o desc \o tail :
        lead \in {<<>>, <<" ","\n">>},
        id \in {<<"E","N","G","-","1","2">>, <<"e","n","g","-","1","2">>, <<"E","-","1">>, <<KelvinSign>> \o <<"A","-","1">>},
        sep1 \in {<<" ">>, <<"\t"," ">>},
        verb \in {<<"F","i","x","e","d">>, <<"f","i","x","e","d">>, <<"F","i","x","i","n","g">>, <<"D","o","c","u","m","e","n","t","e","d">>},
        sep2 \in {<<" ">>, <<"\t"," ">>},
        desc \in {<<>>, <<"a","b">>, <<"a","b","c">>, <<"a"," ","b">>, <<"a","b"," ">>, <<"a","\t","b">>},
        tail \in {<<>>, <<"\n","E","N","G","-","1"," ","F","i","x","e","d"," ","t","h","e"," ","b","o","d","y">>, <<" ","\n","\n","a","b">>}}
    \cup {<<>>, <<" ">>, <<" ","\n","\t">>, <<"E","N","G","-","1","2">>, <<"E","N","G","-","1","2","\n","F","i","x","e","d"," ","a","b","c">>, <<"E","N","G","-","1","2","3"," ","F","i","x">>,
          <<"E","N","G","-","1","2","3"," ","F","i","x","e","d"," ","a","u","t","h","e","n","t","i","c","a","t","i","o","n"," ","b","u","g">>, <<"F","i","x","e","d"," ","a","u","t","h","e","n","t","i","c","a","t","i","o","n"," ","b","u","g">>}

\* <pad><letters><dash><digits><pad> for validate_issue_id
IssueIdInputs ==
    {p1 \o letters \o dash \o digits \o p2 :
        p1 \in {<<>>, <<" ">>}, p2 \in {<<>>, <<" ">>, <<"\n">>},
        letters \in {<<>>, <<"E">>, <<"E","N">>, <<"e","n">>, <<"e","N">>, <<"E","N","G">>, <<"E","1">>, <<"1","2","3">>,
                     <<KelvinSign, "A">>, <<"a", KelvinSign>>, <<DottedCapitalI, "D">>},
        dash \in {<<>>, <<"-">>, <<"-","-">>},
        digits \in {<<>>, <<"1">>, <<"1","2">>, <<"1","a">>, <<"a","b","c">>, <<"E","N","G">>}}

\* The mappings handed to LinearCz.message: the issue id under the key the
\* prompt uses ("issue") or the key the tests use ("issue_id"), the body
\* possibly missing.
Answers ==
    {[k \in {key, "verb", "description"} \cup bodykey |->
        IF k = key THEN id ELSE IF k = "verb" THEN verb
        ELSE IF k = "description" THEN desc ELSE body] :
        key \in {"issue", "issue_id"}, bodykey \in {{}, {"body"}},
        id \in {<<"e","n","g","-","1","2">>, <<" ","E","N","G","-","1","2","\n">>, <<"E","-","1">>, <<"E","N","G","-","1","2"," ","X">>},
        verb \in {<<"F","i","x","e","d">>, <<"F","i","x">>, <<"D","o","c","u","m","e","n","t","e","d">>},
        desc \in {<<"b","u","g">>, <<" ","a"," "," ","b"," ">>, <<>>, <<"F","i","x","e","d"," ","i","t">>, <<"a","\n","b">>},
        body \in {<<>>, <<" ","\n">>, <<"B","o","d","y">>, <<"\n","l","1","\n","\n","l","2"," ","\n">>, <<"[","b","u","m","p",":","m","a","j","o","r","]">>}}

\* The mappings handed to the changelog hook: a message, and an issue id
\* under the key commit_parser captures ("issue"), under the key the tests
\* use ("issue_id"), or under neither.
ParsedMessages ==
    {[k \in keys \cup msgkey |-> IF k = "message" THEN msg ELSE id] :
        keys \in {{}, {"issue"}, {"issue_id"}}, msgkey \in {{}, {"message"}},
        id \in {<<"E","N","G","-","1","2","3">>, <<"E","N","G","-","1">>},
        msg \in {<<"F","i","x"," ","a","u","t","h","e","n","t","i","c","a","t","i","o","n"," ","b","u","g">>, <<"F","i","x"," ","b","u","g"," ","i","n"," ","E","N","G","-","1","2","3">>, <<>>,
                 <<"F","i","x","e","d"," ","E","N","G","-","1","2","3","4"," ","(","E","N","G","-","1","2","3",")">>, <<"[","E","N","G","-","1","]"," ","F","i","x">>}}

\* The keys and levels the entries of custom_verbs are written with.
CustomKeys == {<<"S","h","i","p","p","e","d">>, <<"F","i","x","e","d">>, <<>>, One}

CustomLevels == {MAJOR, NONE, <<"m","a","j","o","r">>, One}

\* The values of custom_verbs: dicts of up to MaxCustom entries, their keys
\* distinct.
CustomVerbs ==
    {d \in SeqsUpTo(CustomKeys \X CustomLevels, MaxCustom) :
        \A i, j \in 1..Len(d) : i # j => d[i][1] # d[j][1]}

PatternLetters == {"a", "(", ")", "[", "]", "*", "\\"}

\* The values of issue_pattern
Patterns == SeqsUpTo(PatternLetters, MaxPattern) \cup {None, One, <<"[","a","]","*","d","(","\\","d","*",")">>}

\* The section cz_linear of the settings, any of its two keys possibly missing.
Section(keys, verbs, pattern) ==
    [k \in keys |-> IF k = "custom_verbs" THEN verbs ELSE pattern]

\* base_config.settings: every value of custom_verbs with a few patterns, and
\* every pattern with a few values of custom_verbs.
Settings ==
    {<<>>}
    \cup {[k \in {"cz_linear"} |-> Section(keys, verbs, pattern)] :
            keys \in SUBSET {"custom_verbs", "issue_pattern"},
            verbs \in CustomVerbs, pattern \in {<<"[","a","]","*">>, <<"(","a">>, <<>>}}
    \cup {[k \in {"cz_linear"} |-> Section(keys, verbs, pattern)] :
            keys \in {{"issue_pattern"}, {"custom_verbs", "issue_pattern"}},
            verbs \in {<<>>, <<<<<<"S","h","i","p","p","e","d">>, MINOR>>>>, <<<<<<"F","i","x","e","d">>, <<"m","a","j","o","r">>>>>>},
            pattern \in Patterns}

\* The messages parsed in a process whose configuration has loaded: a verb
\* that is a custom key only, one that is a custom key and a key of the
\* table, a key of the table only, and a word that is neither.
ConfiguredMessages ==
    {<<"E","N","G","-","1"," ","S","h","i","p","p","e","d"," ","a","p","i">>, <<"E","N","G","-","1"," ","F","i","x","e","d"," ","b","u","g">>, <<"E","N","G","-","1"," ","A","d","d","e","d"," ","a","p","i">>, <<"E","N","G","-","1"," ","P","o","l","i","s","h","e","d"," ","a","p","i">>}

PrefixLetters == {"r", "R", "e", "E", "I", DottedCapitalI}

\* What a user types of a verb
Prefixes == SeqsUpTo(PrefixLetters, MaxPrefix)

---------------------------------------------------------------------------
(* The parser's operations, each applied to one message.                   *)

\* No text is handed to a validator.
ValidatorIdle == issue_id = <<>> /\ user_input = <<>>

\* No mapping is handed to the renderer or to the changelog hook.
PluginIdle == answers = <<>> /\ parsed_message = <<>>

\* No settings are loaded; the module holds the table of constants.py.
ConfigIdle == settings = <<>> /\ verb_table = VERB_MAP

Init ==
    /\ message \in Messages
    /\ commits = <<>>
    /\ increments = <<>>
    /\ ValidatorIdle /\ PluginIdle /\ ConfigIdle
    /\ pc = "message"
    /\ result = None

ParseCommit ==
    /\ pc = "message"
    /\ result' = parse_commit(message)
    /\ pc' = "parse_commit"
    /\ UNCHANGED <<parser_vars, validator_vars, plugin_vars, config_vars>>

ExtractManualBump ==
    /\ pc = "message"
    /\ result' = extract_manual_bump(message)
    /\ pc' = "extract_manual_bump"
    /\ UNCHANGED <<parser_vars, validator_vars, plugin_vars, config_vars>>

GetIncrementFromMessage ==
    /\ pc = "message"
    /\ result' = get_increment_from_message(message)
    /\ pc' = "get_increment_from_message"
    /\ UNCHANGED <<parser_vars, validator_vars, plugin_vars, config_vars>>

ExtractVerbFromFirstLine ==
    /\ pc = "message"
    /\ result' = extract_verb_from_first_line(message)
    /\ pc' = "extract_verb_from_first_line"
    /\ UNCHANGED <<parser_vars, validator_vars, plugin_vars, config_vars>>

Next ==
    \/ ParseCommit
    \/ ExtractManualBump
    \/ GetIncrementFromMessage
    \/ ExtractVerbFromFirstLine

Spec == Init /\ [][Next]_vars

---------------------------------------------------------------------------
(* The renderer, its round trip through the parser, and the changelog hook. *)

InitPlugin ==
    /\ \/ answers \in Answers /\ parsed_message = <<>> /\ pc = "answers"
       \/ answers = <<>> /\ parsed_message \in ParsedMessages /\ pc = "parsed_message"
    /\ message = <<>> /\ commits = <<>> /\ increments = <<>>
    /\ ValidatorIdle /\ ConfigIdle
    /\ result = None

\* cz.message(answers)
Message ==
    /\ pc = "answers"
    /\ result' = LinearCz_message(answers)
    /\ pc' = "LinearCz.message"
    /\ UNCHANGED <<parser_vars, validator_vars, plugin_vars, config_vars>>

\* parser.parse_commit(rendered), rendered being the text cz.message returned
ParseRendered ==
    /\ pc = "LinearCz.message"
    /\ result \notin Exceptions
    /\ message' = result
    /\ result' = parse_commit(result)
    /\ pc' = "parse_commit(rendered)"
    /\ UNCHANGED <<commits, increments, validator_vars, plugin_vars, config_vars>>

\* cz.message(parsed), parsed being the mapping parse_commit returned
MessageOfParsed ==
    /\ pc = "parse_commit(rendered)"
    /\ result' = LinearCz_message(result)
    /\ pc' = "LinearCz.message(parsed)"
    /\ UNCHANGED <<parser_vars, validator_vars, plugin_vars, config_vars>>

\* cz.changelog_message_builder_hook(parsed_message, commit)
ChangelogMessageBuilderHook ==
    /\ pc = "parsed_message"
    /\ parsed_message' = _changelog_message_builder_hook(parsed_message)
    /\ result' = parsed_message'
    /\ pc' = "_changelog_message_builder_hook"
    /\ UNCHANGED <<parser_vars, validator_vars, answers, config_vars>>

NextPlugin == Message \/ ParseRendered \/ MessageOfParsed \/ ChangelogMessageBuilderHook

SpecPlugin == InitPlugin /\ [][NextPlugin]_vars

---------------------------------------------------------------------------
(* The configuration handler: construction, then its properties.           *)

InitConfig ==
    /\ settings \in Settings
    /\ verb_table = VERB_MAP
    /\ message = <<>> /\ commits = <<>> /\ increments = <<>>
    /\ ValidatorIdle /\ PluginIdle
    /\ pc = "settings"
    /\ result = None

\* config = LinearConfig(base_config)
Construct ==
    /\ pc = "settings"
    /\ result' = LinearConfig(settings)
    /\ pc' = "LinearConfig"
    /\ UNCHANGED <<parser_vars, validator_vars, plugin_vars, config_vars>>

\* config.verb_map
VerbMapProperty ==
    /\ pc = "LinearConfig"
    /\ result.raised = None
    /\ result' = verb_map(verb_table, result._custom_verbs)
    /\ pc' = "verb_map"
    /\ UNCHANGED <<parser_vars, validator_vars, plugin_vars, config_vars>>

\* config.issue_pattern
IssuePatternProperty ==
    /\ pc = "LinearConfig"
    /\ result.raised = None
    /\ result' = result._issue_pattern
    /\ pc' = "issue_pattern"
    /\ UNCHANGED <<parser_vars, validator_vars, plugin_vars, config_vars>>

\* CommitParser().parse_commit(message), the configuration being loaded.
\* CommitParser.__init__ takes no configuration.
ParseCommitConfigured ==
    /\ pc = "LinearConfig"
    /\ result.raised = None
    /\ \E m \in ConfiguredMessages :
          /\ message' = m
          /\ result' = parse_commit(m)
    /\ pc' = "parse_commit"
    /\ UNCHANGED <<commits, increments, validator_vars, plugin_vars, config_vars>>

\* CommitParser().get_increment_from_message(message), the configuration
\* being loaded.
GetIncrementFromMessageConfigured ==
    /\ pc = "LinearConfig"
    /\ result.raised = None
    /\ \E m \in ConfiguredMessages :
          /\ message' = m
          /\ result' = get_increment_from_message(m)
    /\ pc' = "get_increment_from_message"
    /\ UNCHANGED <<commits, increments, validator_vars, plugin_vars, config_vars>>

\* validate_commit_message(message), the configuration being loaded.
ValidateCommitMessageConfigured ==
    /\ pc = "LinearConfig"
    /\ result.raised = None
    /\ \E m \in ConfiguredMessages :
          /\ message' = m
          /\ result' = validate_commit_message(m)
    /\ pc' = "validate_commit_message"
    /\ UNCHANGED <<commits, increments, validator_vars, plugin_vars, config_vars>>

NextConfig ==
    \/ Construct
    \/ VerbMapProperty
    \/ IssuePatternProperty
    \/ ParseCommitConfigured
    \/ GetIncrementFromMessageConfigured
    \/ ValidateCommitMessageConfigured

SpecConfig == InitConfig /\ [][NextConfig]_vars

---------------------------------------------------------------------------
(* The validators, each applied to one text.                               *)

InitValidators ==
    /\ \/ message \in ValidationMessages /\ issue_id = <<>> /\ user_input = <<>>
          /\ pc = "message"
       \/ message = <<>> /\ issue_id \in IssueIdInputs /\ user_input = <<>>
          /\ pc = "issue_id"
       \/ message = <<>> /\ issue_id = <<>> /\ user_input \in Prefixes
          /\ pc = "user_input"
    /\ commits = <<>> /\ increments = <<>>
    /\ PluginIdle /\ ConfigIdle
    /\ result = None

ValidateCommitMessage ==
    /\ pc = "message"
    /\ result' = validate_commit_message(message)
    /\ pc' = "validate_commit_message"
    /\ UNCHANGED <<parser_vars, validator_vars, plugin_vars, config_vars>>

ValidateIssueId ==
    /\ pc = "issue_id"
    /\ result' = validate_issue_id(issue_id)
    /\ pc' = "validate_issue_id"
    /\ UNCHANGED <<parser_vars, validator_vars, plugin_vars, config_vars>>

SuggestVerb ==
    /\ pc = "user_input"
    /\ result' = suggest_verb(user_input)
    /\ pc' = "suggest_verb"
    /\ UNCHANGED <<parser_vars, validator_vars, plugin_vars, config_vars>>

NextValidators == ValidateCommitMessage \/ ValidateIssueId \/ SuggestVerb

SpecValidators == InitValidators /\ [][NextValidators]_vars

---------------------------------------------------------------------------
(* The resolver's operations, applied to a batch or to a list of levels.   *)

InitBatch ==
    /\ message = <<>>
    /\ ValidatorIdle /\ PluginIdle /\ ConfigIdle
    /\ \/ commits \in Batches /\ increments = <<>> /\ pc = "batch"
       \/ commits = <<>> /\ increments \in LevelLists /\ pc = "levels"
    /\ result = None

GetIncrement ==
    /\ pc = "batch"
    /\ result' = get_increment(commits)
    /\ pc' = "get_increment"
    /\ UNCHANGED <<parser_vars, validator_vars, plugin_vars, config_vars>>

DetermineHighestIncrement ==
    /\ pc = "levels"
    /\ result' = _determine_highest_increment(increments)
    /\ pc' = "_determine_highest_increment"
    /\ UNCHANGED <<parser_vars, validator_vars, plugin_vars, config_vars>>

NextBatch == GetIncrement \/ DetermineHighestIncrement

SpecBatch == InitBatch /\ [][NextBatch]_vars

---------------------------------------------------------------------------
(* Every operation of the package, called on any of its inputs.            *)

InitAll == Init \/ InitBatch \/ InitValidators \/ InitPlugin \/ InitConfig

NextAll == Next \/ NextBatch \/ NextValidators \/ NextPlugin \/ NextConfig

SpecAll == InitAll /\ [][NextAll]_vars

---------------------------------------------------------------------------
(* What the claims speak of, stated without the parser's operators.        *)

AllWhitespace(s) == \A i \in 1..Len(s) : s[i] \in Whitespace

\* s without its leading and trailing whitespace.
TrimOf(s) ==
    IF AllWhitespace(s) THEN <<>>
    ELSE LET i == CHOOSE i \in 1..Len(s) :
                      s[i] \notin Whitespace /\ AllWhitespace(SubSeq(s, 1, i - 1))
             j == CHOOSE j \in 1..Len(s) :
                      s[j] \notin Whitespace /\ AllWhitespace(SubSeq(s, j + 1, Len(s)))
         IN  SubSeq(s, i, j)

\* The text of s before its first line break (all of s when it has none).
UpToLineBreak(s) ==
    IF "\n" \notin Range(s) THEN s
    ELSE SubSeq(s, 1, (CHOOSE i \in 1..Len(s) :
                           s[i] = "\n" /\ "\n" \notin Range(SubSeq(s, 1, i - 1))) - 1)

\* The first line of the trimmed message, trimmed.
TrimmedFirstLine(msg) == TrimOf(UpToLineBreak(TrimOf(msg)))

\* 2+ letters A-Z, a dash, 1+ digits, and nothing else.
IsIssueId(s) ==
    \E n \in 2..Len(s) :
        /\ \A i \in 1..n : s[i] \in UpperSet
        /\ Len(s) >= n + 2
        /\ s[n + 1] = "-"
        /\ \A i \in (n + 2)..Len(s) : s[i] \in Digits

\* 2+ letters of either case, a dash, 1+ digits, and nothing else.
IsIssueIdAnyCase(s) ==
    \E n \in 2..Len(s) :
        /\ \A i \in 1..n : s[i] \in UpperSet \cup LowerSet
        /\ Len(s) >= n + 2
        /\ s[n + 1] = "-"
        /\ \A i \in (n + 2)..Len(s) : s[i] \in Digits

\* The ways to read line as <left> <whitespace> <right>, left satisfying the
\* test of position a and right beginning with no whitespace:
\* <<a, d>> with left = line[1..a] and right = line[d+1..].
SplitsAfter(line, Ends) ==
    {ad \in Ends \X (1..Len(line)) :
        /\ ad[1] < ad[2] /\ ad[2] < Len(line)
        /\ AllWhitespace(SubSeq(line, ad[1] + 1, ad[2]))
        /\ line[ad[2] + 1] \notin Whitespace}

\* <<id, rest>>: line is an issue id, whitespace, and rest.
IdAndRest(line) ==
    {<<SubSeq(line, 1, ad[1]), SubSeq(line, ad[2] + 1, Len(line))>> :
        ad \in SplitsAfter(line, {a \in 1..Len(line) : IsIssueId(SubSeq(line, 1, a))})}

\* <<id, rest>> with an id of letters of either case.
AnyCaseIdAndRest(line) ==
    {<<SubSeq(line, 1, ad[1]), SubSeq(line, ad[2] + 1, Len(line))>> :
        ad \in SplitsAfter(line, {a \in 1..Len(line) : IsIssueIdAnyCase(SubSeq(line, 1, a))})}

\* <<verb, description>>: rest is a key of the verb table, whitespace, and a
\* description.
VerbAndDescription(rest) ==
    {<<SubSeq(rest, 1, ad[1]), SubSeq(rest, ad[2] + 1, Len(rest))>> :
        ad \in SplitsAfter(rest, {a \in 1..Len(rest) : SubSeq(rest, 1, a) \in VerbKeys})}

\* The first whitespace-delimited token of a text that begins with none.
FirstToken(rest) ==
    IF \E i \in 1..Len(rest) : rest[i] \in Whitespace
    THEN SubSeq(rest, 1, (CHOOSE i \in 1..Len(rest) :
                              rest[i] \in Whitespace
                              /\ \A k \in 1..(i - 1) : rest[k] \notin Whitespace) - 1)
    ELSE rest

\* A bump directive of level BumpLevels[lvl] stands at position i of msg,
\* "bump" and the level in any letter case.
IsDirectiveAt(msg, i, lvl) ==
    /\ i + Len(BumpTexts[lvl]) - 1 <= Len(msg)
    /\ \A k \in 1..Len(BumpTexts[lvl]) : CharLower(msg[i + k - 1]) = BumpTexts[lvl][k]

DirectivePositions(msg) ==
    {i \in 1..Len(msg) : \E lvl \in 1..Len(BumpLevels) : IsDirectiveAt(msg, i, lvl)}

HasDirective(msg) == DirectivePositions(msg) # {}

\* The level (1 major, 2 minor, 3 patch, 4 none) of the leftmost directive.
LeftmostLevel(msg) ==
    LET i == CHOOSE i \in DirectivePositions(msg) : \A j \in DirectivePositions(msg) : i <= j
    IN  CHOOSE lvl \in 1..Len(BumpLevels) : IsDirectiveAt(msg, i, lvl)

LevelIncrement == <<MAJOR, MINOR, PATCH, None>>

---------------------------------------------------------------------------
(* C1..C5: parse_commit and extract_manual_bump                            *)

\* The <<id, verb, description>> readings of the first line of the message.
WellFormedReadings(msg) ==
    UNION {{<<ir[1], vd[1], vd[2]>> : vd \in VerbAndDescription(ir[2])} :
              ir \in IdAndRest(TrimmedFirstLine(msg))}

\* C1: when the trimmed first line is <issue id> <verb of the table>
\* <description>, parse_commit returns that id, that verb and the description
\* as written (runs of spaces kept); the body is "" when the message has no
\* line break, and manual_bump is None when it has no bump directive.
C1_ParseCommitRecoversFields ==
    pc = "parse_commit" =>
        \A r \in WellFormedReadings(message) :
            /\ result.issue_id = r[1]
            /\ result.verb = r[2]
            /\ result.description = r[3]
            /\ ("\n" \notin Range(message) => result.body = <<>>)
            /\ (~HasDirective(message) => result.manual_bump = None)

C1_Witness ==
    /\ pc = "parse_commit"
    /\ WellFormedReadings(message) # {}
    /\ message[1] = " "
    /\ "\n" \notin Range(message)
    /\ result.verb = <<"F","i","x","e","d">>
    /\ result.description = <<"a"," "," ","b">>
    /\ result.body = <<>>
    /\ result.manual_bump = None

\* The message with the letters of its leading issue id in uppercase.
WithUppercaseId(msg) ==
    LET stop == {i \in 1..Len(msg) : msg[i] = "-"}
    IN  IF stop = {} THEN msg
        ELSE upper(SubSeq(msg, 1, MinOf(stop))) \o SubSeq(msg, MinOf(stop) + 1, Len(msg))

\* C2: an issue id in lower or mixed case at the start of the first line is
\* matched, and returned in uppercase; the verb is the one parse_commit finds
\* for the message written with the uppercase id.
C2_IssueIdMatchedInAnyCase ==
    pc = "parse_commit" =>
        \A ir \in AnyCaseIdAndRest(TrimmedFirstLine(message)) :
            /\ result.issue_id = upper(ir[1])
            /\ result.verb = parse_commit(upper(ir[1]) \o <<" ">> \o ir[2]).verb

\* C3: an issue id followed by a token that is no key of the verb table gives
\* the id, no verb, and the whole text after the id as the description.
C3_UnknownVerbBecomesDescription ==
    pc = "parse_commit" =>
        \A ir \in IdAndRest(TrimmedFirstLine(message)) :
            FirstToken(ir[2]) \notin VerbKeys =>
                /\ result.issue_id = ir[1]
                /\ result.verb = None
                /\ result.description = ir[2]

C3_Witness ==
    /\ pc = "parse_commit"
    /\ message = <<"E","N","G","-","1","2"," "," ","F","i","x","i","n","g"," ","b","u","g">>
    /\ result.issue_id = <<"E","N","G","-","1","2">>
    /\ result.verb = None
    /\ result.description = <<"F","i","x","i","n","g"," ","b","u","g">>

\* C4: a trimmed first line that is not <issue id> <whitespace> <rest> gives
\* no issue id, no verb, and the whole line as the description.
C4_NoIssueIdKeepsWholeLine ==
    pc = "parse_commit" =>
        (IdAndRest(TrimmedFirstLine(message)) = {} =>
            /\ result.issue_id = None
            /\ result.verb = None
            /\ result.description = TrimmedFirstLine(message))

\* An issue id alone, and a line that starts with no issue id.
C4_Witness ==
    /\ pc = "parse_commit"
    /\ IdAndRest(TrimmedFirstLine(message)) = {}
    /\ \/ message = <<" ","E","N","G","-","1","2">>
       \/ message = <<"F","i","x","e","d"," ","b","u","g">>
    /\ result.issue_id = None
    /\ result.description = TrimmedFirstLine(message)

\* C5: extract_manual_bump returns what the leftmost directive of the whole
\* message names: MAJOR, MINOR or PATCH for major, minor or patch in any
\* letter case, None for none, and None when the message has no directive.
C5_LeftmostDirectiveDecides ==
    pc = "extract_manual_bump" =>
        result = IF HasDirective(message)
                 THEN LevelIncrement[LeftmostLevel(message)]
                 ELSE None

\* What C5 states holds of every message written without the letter U+0130.
C5_HoldsWithoutDottedCapitalI ==
    (pc = "extract_manual_bump" /\ DottedCapitalI \notin Range(message)) =>
        result = IF HasDirective(message)
                 THEN LevelIncrement[LeftmostLevel(message)]
                 ELSE None

---------------------------------------------------------------------------
(* C6..C10: the increment of a batch and of one message                    *)

\* The level of the leftmost directive as the message writes it.
WrittenLevel(msg) ==
    LET i == CHOOSE i \in DirectivePositions(msg) : \A j \in DirectivePositions(msg) : i <= j
    IN  SubSeq(msg, i + Len(BumpOpen),
               i + Len(BumpOpen) + Len(BumpLevels[LeftmostLevel(msg)]) - 1)

\* The manual override a commit carries: the level of its leftmost directive
\* in uppercase, None when that level is none or there is no directive.
OverrideOf(msg) ==
    IF HasDirective(msg) /\ BumpLevels[LeftmostLevel(msg)] # <<"n","o","n","e">>
    THEN upper(WrittenLevel(msg))
    ELSE None

NoOverrides(batch) == \A i \in 1..Len(batch) : OverrideOf(batch[i]) = None

\* C6: the result for a batch with an override is the override of the first
\* commit, in batch order, that carries one.
C6_FirstOverrideWins ==
    pc = "get_increment" =>
        \A i \in 1..Len(commits) :
            (OverrideOf(commits[i]) # None /\ NoOverrides(SubSeq(commits, 1, i - 1)))
                => result = OverrideOf(commits[i])

\* A MAJOR verb, then [bump:patch], then [bump:major]: PATCH.
C6_Witness ==
    /\ pc = "get_increment"
    /\ commits = <<<<"E","N","G","-","3"," ","C","h","a","n","g","e","d"," ","z">>, <<"E","N","G","-","2"," ","A","d","d","e","d"," ","y","\n","\n","[","b","u","m","p",":","p","a","t","c","h","]">>,
                   <<"E","N","G","-","1"," ","F","i","x","e","d"," ","x","\n","\n","[","b","u","m","p",":","m","a","j","o","r","]">>>>
    /\ result = PATCH

LevelOrder == <<NONE, PATCH, MINOR, MAJOR>>

Rank(level) == CHOOSE k \in 1..Len(LevelOrder) : LevelOrder[k] = level

\* The increment the verb of the first line names, None when the line is not
\* <issue id> <verb of the table> ...
VerbLevel(msg) ==
    LET readings == {ir \in IdAndRest(TrimOf(UpToLineBreak(msg))) : FirstToken(ir[2]) \in VerbKeys}
    IN  IF readings = {} THEN None
        ELSE VerbMapGet(FirstToken((CHOOSE ir \in readings : TRUE)[2]))

\* The message has one directive, it stands after the first line break, and
\* its level is written in the letters a-z and A-Z.
OneDirectiveInBody(msg) ==
    /\ Cardinality(DirectivePositions(msg)) = 1
    /\ \A i \in DirectivePositions(msg) : "\n" \in Range(SubSeq(msg, 1, i))
    /\ Range(WrittenLevel(msg)) \subseteq UpperSet \cup LowerSet

\* What C7 asks of the increment reported for one message.
OverrideReported(msg, reported) ==
    (/\ VerbLevel(msg) # None
     /\ OneDirectiveInBody(msg)
     /\ upper(BumpLevels[LeftmostLevel(msg)]) # VerbLevel(msg))
        => reported = LevelIncrement[LeftmostLevel(msg)]

\* C7: a [bump:Y] in the body of a commit whose verb names another level X
\* makes get_increment, and get_increment_from_message, report Y, and report
\* None when Y is none.
C7_ManualOverrideAlwaysWins ==
    /\ (pc = "get_increment" /\ Len(commits) = 1) => OverrideReported(commits[1], result)
    /\ pc = "get_increment_from_message" => OverrideReported(message, result)

\* The levels the verbs of the batch name.
DerivedLevels(batch) ==
    {_get_increment_from_commit(batch[i]) : i \in 1..Len(batch)} \ {None}

Highest(levels) == CHOOSE l \in levels : \A m \in levels : Rank(m) <= Rank(l)

OrdersOf(n) == {p \in [1..n -> 1..n] : \A i, j \in 1..n : p[i] = p[j] => i = j}

SameForEveryOrder(batch, value) ==
    \A p \in OrdersOf(Len(batch)) :
        get_increment([i \in 1..Len(batch) |-> batch[p[i]]]) = value

\* C8 as stated: without overrides the result is the highest level the verbs
\* of the batch name, NONE < PATCH < MINOR < MAJOR, in any order of the batch.
C8_HighestVerbLevel ==
    (pc = "get_increment" /\ NoOverrides(commits) /\ DerivedLevels(commits) # {}) =>
        /\ result = Highest(DerivedLevels(commits))
        /\ SameForEveryOrder(commits, result)

\* C8, amended: without overrides the result is the highest level the verbs
\* of the batch name when that level is PATCH, MINOR or MAJOR, and None when
\* it is NONE or no verb names a level; the same in any order of the batch.
C8_HighestVerbLevelOrNone ==
    (pc = "get_increment" /\ NoOverrides(commits)) =>
        /\ result = IF DerivedLevels(commits) = {} \/ Highest(DerivedLevels(commits)) = NONE
                    THEN None
                    ELSE Highest(DerivedLevels(commits))
        /\ SameForEveryOrder(commits, result)

\* PATCH, MAJOR and MINOR in one batch: MAJOR.
C8_Witness ==
    /\ pc = "get_increment"
    /\ commits = <<<<"E","N","G","-","1"," ","F","i","x","e","d"," ","x">>, <<"E","N","G","-","3"," ","C","h","a","n","g","e","d"," ","z">>, <<"E","N","G","-","2"," ","A","d","d","e","d"," ","y">>>>
    /\ result = MAJOR

\* C9: get_increment returns MAJOR, MINOR, PATCH or None: None for the empty
\* batch and for a batch without overrides whose verbs name no level above
\* NONE; _determine_highest_increment returns None for a list with no MAJOR,
\* MINOR or PATCH in it.
C9_NoneIsNeverReturned ==
    /\ pc = "get_increment" =>
        /\ result \in {MAJOR, MINOR, PATCH, None}
        /\ commits = <<>> => result = None
        /\ (NoOverrides(commits) /\ DerivedLevels(commits) \subseteq {NONE}) => result = None
    /\ pc = "_determine_highest_increment" =>
        (Range(increments) \cap {MAJOR, MINOR, PATCH} = {} => result = None)

\* What C9 states holds of every batch written without the letter U+0130.
C9_HoldsWithoutDottedCapitalI ==
    (\A i \in 1..Len(commits) : DottedCapitalI \notin Range(commits[i])) =>
        /\ pc = "get_increment" =>
            /\ result \in {MAJOR, MINOR, PATCH, None}
            /\ commits = <<>> => result = None
            /\ (NoOverrides(commits) /\ DerivedLevels(commits) \subseteq {NONE}) => result = None
        /\ pc = "_determine_highest_increment" =>
            (Range(increments) \cap {MAJOR, MINOR, PATCH} = {} => result = None)

\* C10: get_increment_from_message never returns NONE, and returns None for
\* a message without directive whose verb the table maps to NONE.
C10_MessageIncrementIsNeverNONE ==
    pc = "get_increment_from_message" =>
        /\ result # NONE
        /\ (VerbLevel(message) = NONE /\ ~HasDirective(message)) => result = None

---------------------------------------------------------------------------
(* C11: verbs in the imperative form.                                       *)

\* The level the claim gives each imperative verb.
ImperativeLevel ==
    [v \in {<<"C","h","a","n","g","e">>} |-> MAJOR] @@
    [v \in {<<"A","d","d">>, <<"C","r","e","a","t","e">>, <<"E","n","h","a","n","c","e">>, <<"I","m","p","l","e","m","e","n","t">>} |-> MINOR] @@
    [v \in {<<"F","i","x">>, <<"U","p","d","a","t","e">>, <<"I","m","p","r","o","v","e">>, <<"R","e","f","a","c","t","o","r">>} |-> PATCH]

\* The first line reads <ISSUE-ID> <imperative verb> ..., with no directive
\* anywhere in the message.
ImperativeForm(msg) ==
    /\ ~HasDirective(msg)
    /\ \E r \in IdAndRest(TrimmedFirstLine(msg)) : FirstToken(r[2]) \in DOMAIN ImperativeLevel

ImperativeVerbOf(msg) ==
    FirstToken((CHOOSE r \in IdAndRest(TrimmedFirstLine(msg)) : TRUE)[2])

\* C11: get_increment_from_message returns MAJOR for '<ISSUE-ID> Change ...',
\* MINOR for the verbs Add, Create, Enhance and Implement, and PATCH for the
\* verbs Fix, Update, Improve and Refactor, when no directive is present.
C11_ImperativeVerbsDeriveIncrements ==
    (pc = "get_increment_from_message" /\ ImperativeForm(message)) =>
        result = ImperativeLevel[ImperativeVerbOf(message)]

---------------------------------------------------------------------------
(* C12: validate_commit_message.                                            *)

\* Where the whitespace-delimited fields of line begin, and how many there are.
FieldStarts(line) ==
    {i \in 1..Len(line) : line[i] \notin Whitespace /\ (i = 1 \/ line[i - 1] \in Whitespace)}

FieldStart(line, k) ==
    CHOOSE i \in FieldStarts(line) : Cardinality({j \in FieldStarts(line) : j < i}) = k - 1

\* The k-th field: from its start up to the next whitespace.
Field(line, k) == FirstToken(SubSeq(line, FieldStart(line, k), Len(line)))

\* The text from the start of the k-th field to the end of the line.
FromField(line, k) == SubSeq(line, FieldStart(line, k), Len(line))

Contains(s, text) ==
    \E i \in 1..(Len(s) - Len(text) + 1) : SubSeq(s, i, i + Len(text) - 1) = text

\* The check that fails first, in the order of the claim; "none" when all pass.
FirstFailingCheck(msg) ==
    LET line == TrimmedFirstLine(msg)
    IN  IF AllWhitespace(msg) THEN "empty"
        ELSE IF Cardinality(FieldStarts(line)) < 3 THEN "format"
        ELSE IF ~IsIssueIdAnyCase(Field(line, 1)) THEN "issue id"
        ELSE IF \A i \in 1..Len(VERB_MAP) : VERB_MAP[i][1] # Field(line, 2) THEN "verb"
        ELSE IF Len(TrimOf(FromField(line, 3))) < 3 THEN "description"
        ELSE "none"

\* Which check a reason reports.
CheckReported(reason) ==
    IF reason = None THEN "none"
    ELSE IF reason = <<"E","m","p","t","y"," ","c","o","m","m","i","t"," ","m","e","s","s","a","g","e">> THEN "empty"
    ELSE IF Contains(reason, <<"'","<","I","S","S","U","E","-","I","D",">"," ","<","V","e","r","b",">"," ","<","d","e","s","c","r","i","p","t","i","o","n",">","'">>) THEN "format"
    ELSE IF Contains(reason, <<"i","s","s","u","e"," ","I","D">>) THEN "issue id"
    ELSE IF Contains(reason, <<"v","e","r","b">>) THEN "verb"
    ELSE IF Contains(reason, <<"D","e","s","c","r","i","p","t","i","o","n"," ","t","o","o"," ","s","h","o","r","t">>) THEN "description"
    ELSE "other"

---------------------------------------------------------------------------
(* C13: validate_issue_id.                                                  *)

\* C13: validate_issue_id(s) is true iff s, trimmed and uppercased, is two or
\* more letters A-Z, a dash and one or more digits; and it is the same for s,
\* for the uppercase of s and for the lowercase of s.
C13_IssueIdValidityIgnoresCase ==
    pc = "validate_issue_id" =>
        /\ result <=> IsIssueId(TrimOf(upper(issue_id)))
        /\ result = validate_issue_id(upper(issue_id))
        /\ result = validate_issue_id(lower(issue_id))

\* What C13 states holds of every text written without the Kelvin sign.
C13_HoldsWithoutKelvinSign ==
    (pc = "validate_issue_id" /\ KelvinSign \notin Range(issue_id)) =>
        /\ result <=> IsIssueId(TrimOf(upper(issue_id)))
        /\ result = validate_issue_id(upper(issue_id))
        /\ result = validate_issue_id(lower(issue_id))

---------------------------------------------------------------------------
(* C14: suggest_verb.                                                       *)

\* The keys of the table whose lowercase form starts with the lowercased prefix.
KeysStartingWith(prefix) ==
    {VERB_MAP[i][1] : i \in {k \in 1..Len(VERB_MAP) :
        \E n \in 0..Len(VERB_MAP[k][1]) : lower(SubSeq(VERB_MAP[k][1], 1, n)) = lower(prefix)}}

\* The letter a-z or A-Z in the other case; any other character as it is.
OtherCase(c) ==
    IF c \in LowerSet THEN ToUpperMap[c]
    ELSE IF c \in UpperSet THEN ToLowerMap[c]
    ELSE c

\* The texts that differ from prefix in letter case only.
CaseVariants(prefix) ==
    {[k \in 1..Len(prefix) |-> IF k \in swapped THEN OtherCase(prefix[k]) ELSE prefix[k]] :
        swapped \in SUBSET (1..Len(prefix))}

KeyIndex(verb) == CHOOSE i \in 1..Len(VERB_MAP) : VERB_MAP[i][1] = verb

---------------------------------------------------------------------------
(* C15, C16: the renderer and its round trip.                               *)

\* The answers hold an issue id, a verb and a description.
HasFields(a) ==
    /\ {"verb", "description"} \subseteq DOMAIN a
    /\ "issue_id" \in DOMAIN a \/ "issue" \in DOMAIN a

IssueIdOf(a) == IF "issue_id" \in DOMAIN a THEN a["issue_id"] ELSE a["issue"]

\* '<ISSUE-ID> <verb> <description>', then a blank line and the trimmed body
\* when there is a body that is not whitespace only.
Rendering(a) ==
    LET first == TrimOf(upper(IssueIdOf(a))) \o <<" ">> \o a["verb"] \o <<" ">>
                     \o TrimOf(a["description"])
    IN  IF "body" \in DOMAIN a /\ ~AllWhitespace(a["body"])
        THEN first \o <<"\n", "\n">> \o TrimOf(a["body"])
        ELSE first

\* C15: LinearCz.message, given answers {issue_id, verb, description, body},
\* returns '<ISSUE-ID> <verb> <description>', the issue id uppercased and
\* trimmed, followed by a blank line and the trimmed body only when the body
\* is not empty after trimming.
C15_MessageRendersTheAnswers ==
    (pc = "LinearCz.message" /\ HasFields(answers)) => result = Rendering(answers)

\* What C15 states holds of the answers that name the issue id "issue".
C15_HoldsForTheKeyIssue ==
    (pc = "LinearCz.message" /\ HasFields(answers) /\ "issue" \in DOMAIN answers) =>
        result = Rendering(answers)

\* C16: render(parse(render(fields))) = render(fields) for fields whose verb
\* is a key of the verb table and whose description holds no line break.
C16_RoundTripIsStable ==
    (/\ pc = "LinearCz.message(parsed)"
     /\ \E i \in 1..Len(VERB_MAP) : VERB_MAP[i][1] = answers["verb"]
     /\ "\n" \notin Range(answers["description"]))
        => result = message

---------------------------------------------------------------------------
(* C17, C18: the changelog hook.                                            *)

\* C17: the hook, given a record that holds an issue id and a message, sets
\* the message to '[<ISSUE-ID>] <message>', also when the message already
\* holds the issue id.
C17_ChangelogPrefixesTheIssueId ==
    [][(/\ pc' = "_changelog_message_builder_hook"
        /\ "message" \in DOMAIN parsed_message
        /\ "issue_id" \in DOMAIN parsed_message \/ "issue" \in DOMAIN parsed_message)
           => result'["message"] =
                  <<"[">> \o IssueIdOf(parsed_message) \o <<"]", " ">> \o parsed_message["message"]]_vars

\* C18: the hook, given a record that holds no issue id, returns the record
\* as it was handed, its message unchanged.
C18_NoIssueIdPassesThrough ==
    [][(/\ pc' = "_changelog_message_builder_hook"
        /\ "issue_id" \notin DOMAIN parsed_message
        /\ "issue" \notin DOMAIN parsed_message)
           => (result' = parsed_message /\ parsed_message' = parsed_message)]_vars

\* The hook has returned a record with a message and no issue id.
C18_Witness ==
    /\ pc = "_changelog_message_builder_hook"
    /\ DOMAIN result = {"message"}
    /\ result["message"] = <<"F","i","x"," ","a","u","t","h","e","n","t","i","c","a","t","i","o","n"," ","b","u","g">>

---------------------------------------------------------------------------
(* C19, C20: the configuration.                                             *)

\* The entries the user supplies: the value of custom_verbs, if any.
CustomEntries(s) ==
    IF "cz_linear" \in DOMAIN s /\ "custom_verbs" \in DOMAIN s["cz_linear"]
    THEN s["cz_linear"]["custom_verbs"] ELSE <<>>

\* The levels the mapping d gives key, one for each entry of that key.
LevelsOf(d, key) == {d[i][2] : i \in {k \in 1..Len(d) : d[k][1] = key}}

EntriesOf(d, key) == {i \in 1..Len(d) : d[i][1] = key}

\* C19: verb_map is the built-in table extended by the custom entries: every
\* custom key maps to its custom level, every built-in key without a custom
\* entry keeps its level, no other key appears, and the built-in table is
\* not changed.
C19_VerbMapExtendsTheTable ==
    pc = "verb_map" =>
        LET custom == CustomEntries(settings)
        IN  /\ \A i \in 1..Len(custom) : LevelsOf(result, custom[i][1]) = {custom[i][2]}
            /\ \A i \in 1..Len(VERB_MAP) :
                  LevelsOf(custom, VERB_MAP[i][1]) = {} =>
                      LevelsOf(result, VERB_MAP[i][1]) = {VERB_MAP[i][2]}
            /\ \A i \in 1..Len(result) :
                  /\ LevelsOf(custom, result[i][1]) # {} \/ LevelsOf(VERB_MAP, result[i][1]) # {}
                  /\ EntriesOf(result, result[i][1]) = {i}
            /\ verb_table = VERB_MAP

\* A custom entry for a verb of the table, with another level, and one for
\* a new verb.
C19_Witness ==
    /\ pc = "verb_map"
    /\ CustomEntries(settings) = <<<<<<"F","i","x","e","d">>, MAJOR>>, <<<<"S","h","i","p","p","e","d">>, NONE>>>>
    /\ LevelsOf(result, <<"F","i","x","e","d">>) = {MAJOR}
    /\ LevelsOf(result, <<"S","h","i","p","p","e","d">>) = {NONE}
    /\ LevelsOf(result, <<"A","d","d","e","d">>) = {MINOR}

\* An entry of custom_verbs with an empty or non-string key, or with a level
\* outside MAJOR, MINOR, PATCH, NONE.
HasInvalidVerb(s) ==
    \E i \in 1..Len(CustomEntries(s)) :
        \/ CustomEntries(s)[i][1] \in {<<>>, None, One}
        \/ CustomEntries(s)[i][2] \notin {MAJOR, MINOR, PATCH, NONE}

\* An issue pattern is given and is no legal pattern.
HasInvalidPattern(s) ==
    /\ "cz_linear" \in DOMAIN s /\ "issue_pattern" \in DOMAIN s["cz_linear"]
    /\ LET p == s["cz_linear"]["issue_pattern"]
       IN  p \notin {None, <<>>} /\ (p = One \/ ~Compiles(p, 1, 0, FALSE))

\* C20: constructing LinearConfig with an invalid custom verb or an illegal
\* issue pattern raises ConfigurationError; no configuration object comes of
\* it.
C20_InvalidConfigurationAborts ==
    (pc = "LinearConfig" /\ (HasInvalidVerb(settings) \/ HasInvalidPattern(settings))) =>
        result.raised = ConfigurationError

\* A valid entry followed by one with a level in lowercase, and no pattern.
C20_Witness ==
    /\ pc = "LinearConfig"
    /\ CustomEntries(settings) = <<<<<<"S","h","i","p","p","e","d">>, MAJOR>>, <<<<"F","i","x","e","d">>, <<"m","a","j","o","r">>>>>>
    /\ ~HasInvalidPattern(settings)
    /\ result.raised = ConfigurationError

---------------------------------------------------------------------------
(* C21: the configuration and the parser.                                   *)

\* The levels of key in the effective verb table of settings s: the custom
\* level where there is one, the built-in level otherwise.
EffectiveLevels(s, key) ==
    IF LevelsOf(CustomEntries(s), key) # {} THEN LevelsOf(CustomEntries(s), key)
    ELSE LevelsOf(VERB_MAP, key)

\* C21: with a configuration loaded, a message whose verb is a key of the
\* effective verb table (built-in plus custom) is parsed with that verb, is
\* not rejected for its verb, and derives the level the effective table
\* gives the verb.
C21_ConfiguredVerbsAreApplied ==
    \A ir \in IdAndRest(TrimmedFirstLine(message)) :
        LET verb == FirstToken(ir[2])
        IN  EffectiveLevels(settings, verb) # {} =>
                /\ pc = "parse_commit" => result.verb = verb
                /\ pc = "validate_commit_message" => result[1]
                /\ pc = "get_increment_from_message" =>
                       {result} = EffectiveLevels(settings, verb)

---------------------------------------------------------------------------
(* C22: what the operations write.                                          *)

\* A step hands a new text to the parser: the rendered message, or a message
\* parsed once the configuration has loaded.
HandsInMessage == pc \in {"LinearCz.message", "LinearConfig"}

\* The step leaves the shared verb table as it is.
TablesKept == verb_table' = verb_table /\ verb_table' = VERB_MAP

\* The step leaves every argument but the hook's record as it was handed in.
OtherArgumentsKept ==
    /\ commits' = commits /\ increments' = increments
    /\ issue_id' = issue_id /\ user_input' = user_input
    /\ answers' = answers /\ settings' = settings
    /\ message' # message => HandsInMessage

---------------------------------------------------------------------------
(* C23: the body.                                                           *)

\* The text of the trimmed message after its first line break; nothing when
\* it has no line break.
AfterFirstLineBreak(msg) ==
    LET t == TrimOf(msg)
    IN  IF "\n" \in Range(t)
        THEN SubSeq(t, Len(UpToLineBreak(t)) + 2, Len(t))
        ELSE <<>>

\* The line breaks of a text.
LineBreaks(s) == Cardinality({i \in 1..Len(s) : s[i] = "\n"})

\* C23: the body parse_commit returns is the text after the first line break
\* of the trimmed message, trimmed, with every line break inside it kept;
\* issue_id, verb and description are those of the first line alone.
C23_BodyIsTheTextAfterTheFirstLineBreak ==
    pc = "parse_commit" =>
        LET alone == parse_commit(UpToLineBreak(TrimOf(message)))
        IN  /\ result.body = TrimOf(AfterFirstLineBreak(message))
            /\ LineBreaks(result.body) = LineBreaks(TrimOf(AfterFirstLineBreak(message)))
            /\ result.issue_id = alone.issue_id
            /\ result.verb = alone.verb
            /\ result.description = alone.description
            /\ alone.body = <<>>

\* A body of two lines with a blank line between them and whitespace after
\* them.
C23_Witness ==
    /\ pc = "parse_commit"
    /\ message = <<"E","N","G","-","1","2"," ","F","i","x","e","d"," ","b","u","g">> \o <<"\n","l","1","\n","\n","l","2"," ","\n">>
    /\ result.body = <<"l","1","\n","\n","l","2">>
    /\ result.issue_id = <<"E","N","G","-","1","2">>
    /\ result.verb = <<"F","i","x","e","d">>
    /\ result.description = <<"b","u","g">>

---------------------------------------------------------------------------
(* C24: the two ways to the verb.                                           *)

\* One line, with no whitespace before or after it.
IsBareFirstLine(s) == "\n" \notin Range(s) /\ TrimOf(s) = s

\* C24: on a first line without surrounding whitespace,
\* extract_verb_from_first_line and parse_commit give the same verb, and the
\* verb is a whole whitespace-delimited token of the line.
C24_BothPathsGiveTheSameVerb ==
    IsBareFirstLine(message) =>
        /\ pc = "extract_verb_from_first_line" =>
               /\ result = parse_commit(message).verb
               /\ result # None =>
                      \E ir \in IdAndRest(message) : FirstToken(ir[2]) = result
        /\ pc = "parse_commit" =>
               result.verb = extract_verb_from_first_line(message)

---------------------------------------------------------------------------
(* C25: the validator and the parser.                                       *)

\* parse_commit gives the message an issue id and a verb: the first field
\* in uppercase and the second field.
ParsedAsItsFields(msg) ==
    LET line   == TrimmedFirstLine(msg)
        parsed == parse_commit(msg)
    IN  /\ parsed.issue_id # None
        /\ parsed.verb # None
        /\ parsed.issue_id = upper(Field(line, 1))
        /\ parsed.verb = Field(line, 2)

\* C25: a message validate_commit_message accepts is parsed by parse_commit
\* with an issue id and a verb, the id being the first field in uppercase
\* and the verb the second field.
C25_ValidMessagesParse ==
    (pc = "validate_commit_message" /\ result = <<TRUE, None>>) =>
        ParsedAsItsFields(message)

\* The same for the accepted messages whose issue id is written in
\* uppercase.
C25_HoldsForUppercaseIds ==
    (/\ pc = "validate_commit_message"
     /\ result = <<TRUE, None>>
     /\ IsIssueId(Field(TrimmedFirstLine(message), 1))) =>
        ParsedAsItsFields(message)

=============================================================================
